---- MODULE Spec2Model ----
(***************************************************************************)
(* Model of in_toto/keylib.go: key-id derivation, RSA / Ed25519 key        *)
(* loading and parsing, and RSASSA-PSS / Ed25519 signing and verification. *)
(*                                                                         *)
(* Strings and byte slices are sequences of integers (character codes,     *)
(* bytes).  A PEM block inside a text is one token >= 1000 and a JSON      *)
(* document is the two tokens <<2000, d>>; everything below 256 is an      *)
(* ordinary character.  The cryptographic primitives of the libraries are  *)
(* replaced by small deterministic stand-ins that keep the properties the  *)
(* glue code relies on (length checks, panics, dependence on key, digest   *)
(* and salt); the glue code itself is translated statement by statement.   *)
(***************************************************************************)
EXTENDS Integers, Sequences, FiniteSets, TLC

VARIABLES k, prev, call, sig, data, signed, tamper, pc

vars == <<k, prev, call, sig, data, signed, tamper, pc>>

(***************************************************************************)
(* Bounds of the model.                                                    *)
(***************************************************************************)
\* payloads are the byte strings of 0..MaxMsgLen bytes
MaxMsgLen == 1
\* the PSS salt drawn from rand.Reader is one of 1..NumSalts
NumSalts == 2

(***************************************************************************)
(* Program constants.                                                      *)
(***************************************************************************)
\* sha256.Size: digest length, and the PSS salt length the code fixes
Sha256Size == 32
\* "64 hexadecimal digits => 32 bytes"
Ed25519HexLen == 64

SeedSize == Ed25519HexLen \div 2
PublicKeySize == Ed25519HexLen \div 2
SignatureSize == 2 * SeedSize

(***************************************************************************)
(* Generic helpers on sequences.                                           *)
(***************************************************************************)
Pow2(b) == CASE b = 0 -> 1 [] b = 1 -> 2 [] b = 2 -> 4 [] b = 3 -> 8
             [] b = 4 -> 16 [] b = 5 -> 32 [] b = 6 -> 64 [] OTHER -> 128

\* c with bit b inverted
FlipBit(c, b) == IF (c \div Pow2(b)) % 2 = 1 THEN c - Pow2(b) ELSE c + Pow2(b)

Repeat(c, n) == [i \in 1..n |-> c]

(***************************************************************************)
(* encoding/hex                                                            *)
(***************************************************************************)
\* fromHexChar: the nibble of a hex digit of either case, -1 for any other byte
fromHexChar(c) ==
    CASE c >= 48 /\ c <= 57  -> c - 48
      [] c >= 97 /\ c <= 102 -> c - 97 + 10
      [] c >= 65 /\ c <= 70  -> c - 65 + 10
      [] OTHER -> -1

IsHexString(s) ==
    /\ Len(s) % 2 = 0
    /\ \A i \in 1..Len(s) : fromHexChar(s[i]) >= 0

\* number of leading byte pairs of s that are both hex digits
GoodPairs(s) ==
    LET bad == {i \in 1..(Len(s) \div 2) :
                   fromHexChar(s[2 * i - 1]) < 0 \/ fromHexChar(s[2 * i]) < 0}
    IN  IF bad = {} THEN Len(s) \div 2
        ELSE (CHOOSE i \in bad : \A j \in bad : i <= j) - 1

\* hex.DecodeString: on malformed input it returns the bytes decoded before
\* the error together with the error
DecodeString(s) ==
    LET n == GoodPairs(s)
    IN  [out |-> [i \in 1..n |-> 16 * fromHexChar(s[2 * i - 1]) + fromHexChar(s[2 * i])],
         err |-> IF IsHexString(s) THEN "" ELSE "encoding/hex: invalid input"]

HexDigit(n) == IF n < 10 THEN 48 + n ELSE 97 + n - 10

\* hex.EncodeToString and fmt.Sprintf("%x", ...): lowercase, two digits a byte
EncodeToString(b) ==
    [i \in 1..(2 * Len(b)) |->
        IF i % 2 = 1 THEN HexDigit(b[(i + 1) \div 2] \div 16)
                     ELSE HexDigit(b[i \div 2] % 16)]

(***************************************************************************)
(* crypto/sha256 stand-in: a position-weighted checksum modulo a prime,    *)
(* written into Sha256Size bytes.  Changing one element of the input, or   *)
(* its length, changes the digest.                                         *)
(***************************************************************************)
\* the term of element i: its weight is never 0 modulo 32749
Term(s, i, hi) == IF i > hi THEN 0 ELSE ((s[i] + 1) * (1 + ((263 * i) % 32748))) % 32749

\* sum of the terms of s[lo..hi], modulo 32749
RECURSIVE WeightedSum(_, _, _)
WeightedSum(s, lo, hi) ==
    IF hi - lo < 4
    THEN (Term(s, lo, hi) + Term(s, lo + 1, hi) + Term(s, lo + 2, hi) + Term(s, lo + 3, hi)) % 32749
    ELSE LET mid == (lo + hi) \div 2
         IN  (WeightedSum(s, lo, mid) + WeightedSum(s, mid + 1, hi)) % 32749

Sum256(s) ==
    LET v == (7 + 5 * Len(s) + WeightedSum(s, 1, Len(s))) % 32749
    IN  [i \in 1..Sha256Size |->
            CASE i = 1 -> v \div 256
              [] i = 2 -> v % 256
              [] OTHER -> (v + 37 * i) % 256]

(***************************************************************************)
(* Key and Signature                                                       *)
(***************************************************************************)
MkKey(id, kt, sc, algs, pub, priv) ==
    [KeyId |-> id, KeyType |-> kt, Scheme |-> sc, KeyIdHashAlgorithms |-> algs,
     KeyVal |-> [Public |-> pub, Private |-> priv]]

\* the zero value of Key: var keyObj Key
ZeroKey == MkKey(<<>>, "", "", <<>>, <<>>, <<>>)

\* the zero value of Signature: var signature Signature
ZeroSignature == [KeyId |-> <<>>, Sig |-> <<>>]

\* the characters of the few strings that occur as key type, scheme or
\* hash algorithm name
Chars(s) ==
    CASE s = "rsa"               -> <<114, 115, 97>>
      [] s = "ed25519"           -> <<101, 100, 50, 53, 53, 49, 57>>
      [] s = "rsassa-pss-sha256" -> <<114, 115, 97, 115, 115, 97, 45, 112, 115, 115,
                                       45, 115, 104, 97, 50, 53, 54>>
      [] s = "sha256"            -> <<115, 50, 53, 54>>
      [] s = "sha512"            -> <<115, 53, 49, 50>>
      [] OTHER                   -> <<>>

Quote(s) == <<34>> \o s \o <<34>>

RECURSIVE QuoteAll(_)
QuoteAll(l) ==
    IF l = <<>> THEN <<>> ELSE Quote(Chars(Head(l))) \o <<44>> \o QuoteAll(Tail(l))

\* EncodeCanonical: deterministic serialisation of the mapping, keys in
\* sorted order; it does not fail on a mapping of strings
EncodeCanonical(m) ==
    [out |-> <<123>> \o <<1, 91>> \o QuoteAll(m.keyid_hash_algorithms) \o <<93>>
                     \o <<2>> \o Quote(Chars(m.keytype))
                     \o <<3, 123>> \o Quote(m.keyval.public) \o <<125>>
                     \o <<4>> \o Quote(Chars(m.scheme)) \o <<125>>,
     err |-> ""]

\* a slip: the whole KeyVal, private half included, goes into the hashed map
GenerateKeyIdHashingPrivate(key) ==
    LET keyToBeHashed == [keytype |-> key.KeyType,
                          scheme |-> key.Scheme,
                          keyid_hash_algorithms |-> key.KeyIdHashAlgorithms,
                          keyval |-> [public |-> key.KeyVal.Public \o <<44>> \o key.KeyVal.Private]]
        c == EncodeCanonical(keyToBeHashed)
    IN  IF c.err # "" THEN [key |-> key, err |-> c.err]
        ELSE [key |-> [key EXCEPT !.KeyId = EncodeToString(Sum256(c.out))], err |-> ""]

\* func (k *Key) GenerateKeyId() error
GenerateKeyId(key) ==
    LET keyToBeHashed == [keytype |-> key.KeyType,
                          scheme |-> key.Scheme,
                          keyid_hash_algorithms |-> key.KeyIdHashAlgorithms,
                          keyval |-> [public |-> key.KeyVal.Public]]
        c == EncodeCanonical(keyToBeHashed)
    IN  IF c.err # "" THEN [key |-> key, err |-> c.err]
        ELSE [key |-> [key EXCEPT !.KeyId = EncodeToString(Sum256(c.out))], err |-> ""]

(***************************************************************************)
(* strings.TrimSpace                                                       *)
(***************************************************************************)
IsSpace(c) == c \in {9, 10, 11, 12, 13, 32, 133, 160}

RECURSIVE TrimLeft(_)
TrimLeft(s) == IF s # <<>> /\ IsSpace(Head(s)) THEN TrimLeft(Tail(s)) ELSE s

RECURSIVE TrimRight(_)
TrimRight(s) ==
    IF s # <<>> /\ IsSpace(s[Len(s)]) THEN TrimRight(SubSeq(s, 1, Len(s) - 1)) ELSE s

TrimSpace(s) == TrimRight(TrimLeft(s))

(***************************************************************************)
(* encoding/pem and crypto/x509.  A PEM block is the token                 *)
(* 1000 + 100 * der + n: der tells what the block's DER bytes hold         *)
(* (0 a PKIX RSA public key, 1 a PKIX ECDSA public key, 2 a PKCS#1 RSA     *)
(* private key, 3 malformed DER) and n names the key pair.                 *)
(***************************************************************************)
PemBlock(der, n) == 1000 + 100 * der + n
IsPemBlock(t) == t >= 1000 /\ t < 1400
DerOf(t) == (t - 1000) \div 100
PairOf(t) == (t - 1000) % 100

\* modulus length of key pair n: pair 1 is a 1024-bit key, pair 2 a 512-bit key
BitLen(n) == IF n = 1 THEN 1024 ELSE 512

\* (*rsa.PublicKey).Size(): modulus size in bytes
Size(key) == (key.bits + 7) \div 8

\* pem.Decode: the first PEM block of the text; whatever precedes or follows
\* it is ignored
Decode(text) ==
    LET at == {i \in 1..Len(text) : IsPemBlock(text[i])}
    IN  IF at = {} THEN [found |-> FALSE, Bytes |-> 0]
        ELSE [found |-> TRUE, Bytes |-> text[CHOOSE i \in at : \A j \in at : i <= j]]

\* pem.EncodeToMemory: the block followed by a line break
EncodeToMemory(der) == <<der, 10>>

NoRSAKey == [N |-> 0, bits |-> 0]

\* func ParseRSAPublicKeyFromPEM(pemBytes []byte) (*rsa.PublicKey, error)
ParseRSAPublicKeyFromPEM(pemBytes) ==
    LET d == Decode(pemBytes)
    IN  IF ~d.found
        THEN [key |-> NoRSAKey, err |-> "Could not find a public key PEM block"]
        ELSE IF DerOf(d.Bytes) \notin {0, 1}
        THEN [key |-> NoRSAKey, err |-> "x509: failed to parse public key"]
        ELSE IF DerOf(d.Bytes) # 0
        THEN [key |-> NoRSAKey, err |-> "We currently only support rsa keys"]
        ELSE [key |-> [N |-> PairOf(d.Bytes), bits |-> BitLen(PairOf(d.Bytes))],
              err |-> ""]

\* func ParseRSAPrivateKeyFromPEM(pemBytes []byte) (*rsa.PrivateKey, error)
ParseRSAPrivateKeyFromPEM(pemBytes) ==
    LET d == Decode(pemBytes)
    IN  IF ~d.found
        THEN [key |-> NoRSAKey, err |-> "Could not find a private key PEM block"]
        ELSE IF DerOf(d.Bytes) # 2
        THEN [key |-> NoRSAKey, err |-> "x509: failed to parse private key"]
        ELSE [key |-> [N |-> PairOf(d.Bytes), bits |-> BitLen(PairOf(d.Bytes))],
              err |-> ""]

\* x509.MarshalPKIXPublicKey(privateKey.Public())
MarshalPKIXPublicKey(priv) == PemBlock(0, priv.N)

(***************************************************************************)
(* crypto/rsa PSS stand-in.  A signature is Size(key) bytes: the first     *)
(* names the salt, the others mix modulus, digest and salt.                *)
(***************************************************************************)
PSSBytes(key, hashed, salt) ==
    [i \in 1..Size(key) |->
        IF i = 1 THEN salt % 256
        ELSE (hashed[((i - 2) % Len(hashed)) + 1] + 3 * salt + 5 * key.N + i) % 256]

\* emsaPSSEncode / emsaPSSVerify: emLen >= hLen + sLen + 2
PSSFits(key, hLen, sLen) == ((key.bits - 1) + 7) \div 8 >= hLen + sLen + 2

\* rsa.SignPSS(rand.Reader, priv, crypto.SHA256, hashed, opts)
SignPSS(salt, priv, hashed, SaltLength) ==
    IF ~PSSFits(priv, Len(hashed), SaltLength)
    THEN [out |-> <<>>, err |-> "crypto/rsa: key size too small for PSS signature"]
    ELSE [out |-> PSSBytes(priv, hashed, salt), err |-> ""]

\* rsa.VerifyPSS(pub, crypto.SHA256, hashed, sig, opts)
VerifyPSS(pub, hashed, s, SaltLength) ==
    IF Len(s) # Size(pub) THEN "crypto/rsa: verification error"
    ELSE IF ~PSSFits(pub, Len(hashed), SaltLength) THEN "crypto/rsa: verification error"
    ELSE IF s = PSSBytes(pub, hashed, s[1]) THEN ""
    ELSE "crypto/rsa: verification error"

(***************************************************************************)
(* golang.org/x/crypto/ed25519 stand-in                                    *)
(***************************************************************************)
\* the public key expanded from a seed
PublicFromSeed(seed) == [i \in 1..Len(seed) |-> (5 * seed[i] + i) % 256]

\* the one signature of message m that verifies under public key pub
EdBytes(pub, m) ==
    LET d == Sum256(m)
    IN  [i \in 1..SignatureSize |->
            (pub[((i - 1) % PublicKeySize) + 1] + d[((i - 1) % Len(d)) + 1] + i) % 256]

\* ed25519.NewKeyFromSeed: panics unless the seed is SeedSize bytes long
NewKeyFromSeed(seed) ==
    IF Len(seed) # SeedSize THEN [out |-> <<>>, panic |-> TRUE]
    ELSE [out |-> seed \o PublicFromSeed(seed), panic |-> FALSE]

\* ed25519.Sign(privateKey, message)
Sign(privkey, m) == EdBytes(SubSeq(privkey, SeedSize + 1, Len(privkey)), m)

\* ed25519.Verify: panics unless the public key is PublicKeySize bytes long
Verify(pub, m, s) ==
    IF Len(pub) # PublicKeySize THEN [ok |-> FALSE, panic |-> TRUE]
    ELSE IF Len(s) # SignatureSize THEN [ok |-> FALSE, panic |-> FALSE]
    ELSE [ok |-> s = EdBytes(pub, m), panic |-> FALSE]

(***************************************************************************)
(* Files.  A path names a file: whether it can be opened, whether reading  *)
(* or closing it fails, and its bytes.                                     *)
(***************************************************************************)
MkFile(e, r, c, b) == [exists |-> e, readErr |-> r, closeErr |-> c, bytes |-> b]

\* the deferred keyFile.Close(): its error replaces the function's result
DeferredClose(f, r) == IF f.closeErr THEN [r EXCEPT !.err = "close"] ELSE r

\* a slip: the derived public PEM is stored with its final line break
LoadRSAPrivateKeyUntrimmed(key, f) ==
    IF ~f.exists THEN [key |-> key, err |-> "open"]
    ELSE DeferredClose(f,
        IF f.readErr THEN [key |-> key, err |-> "read"]
        ELSE LET p == ParseRSAPrivateKeyFromPEM(f.bytes)
             IN  IF p.err # "" THEN [key |-> key, err |-> p.err]
                 ELSE LET publicKeyPemBlockBytes ==
                              EncodeToMemory(MarshalPKIXPublicKey(p.key))
                          filled == [key EXCEPT
                              !.KeyType = "rsa",
                              !.KeyVal = [Public |-> publicKeyPemBlockBytes,
                                          Private |-> TrimSpace(f.bytes)],
                              !.Scheme = "rsassa-pss-sha256",
                              !.KeyIdHashAlgorithms = <<"sha256", "sha512">>]
                      IN  GenerateKeyId(filled))

\* func (k *Key) LoadRSAPublicKey(path string) (err error)
LoadRSAPublicKey(key, f) ==
    IF ~f.exists THEN [key |-> key, err |-> "open"]
    ELSE DeferredClose(f,
        IF f.readErr THEN [key |-> key, err |-> "read"]
        ELSE LET p == ParseRSAPublicKeyFromPEM(f.bytes)
             IN  IF p.err # "" THEN [key |-> key, err |-> p.err]
                 ELSE LET filled == [key EXCEPT
                              !.KeyType = "rsa",
                              !.KeyVal = [Public |-> TrimSpace(f.bytes),
                                          Private |-> <<>>],
                              !.Scheme = "rsassa-pss-sha256",
                              !.KeyIdHashAlgorithms = <<"sha256", "sha512">>]
                      IN  GenerateKeyId(filled))

\* func (k *Key) LoadRSAPrivateKey(path string) (err error)
LoadRSAPrivateKey(key, f) ==
    IF ~f.exists THEN [key |-> key, err |-> "open"]
    ELSE DeferredClose(f,
        IF f.readErr THEN [key |-> key, err |-> "read"]
        ELSE LET p == ParseRSAPrivateKeyFromPEM(f.bytes)
             IN  IF p.err # "" THEN [key |-> key, err |-> p.err]
                 ELSE LET publicKeyPemBlockBytes ==
                              EncodeToMemory(MarshalPKIXPublicKey(p.key))
                          filled == [key EXCEPT
                              !.KeyType = "rsa",
                              !.KeyVal = [Public |-> TrimSpace(publicKeyPemBlockBytes),
                                          Private |-> TrimSpace(f.bytes)],
                              !.Scheme = "rsassa-pss-sha256",
                              !.KeyIdHashAlgorithms = <<"sha256", "sha512">>]
                      IN  GenerateKeyId(filled))

(***************************************************************************)
(* RSA signing and verification                                            *)
(***************************************************************************)
\* a slip: the digest is taken of the key's PEM bytes, not of the payload
GenerateRSASignatureHashingKey(signable, key, salt) ==
    LET pemBytes == key.KeyVal.Private
        p == ParseRSAPrivateKeyFromPEM(pemBytes)
    IN  IF p.err # "" THEN [sig |-> ZeroSignature, err |-> p.err]
        ELSE LET hashed == Sum256(pemBytes)
                 s == SignPSS(salt, p.key, hashed, Sha256Size)
             IN  IF s.err # "" THEN [sig |-> ZeroSignature, err |-> s.err]
                 ELSE [sig |-> [Sig |-> EncodeToString(s.out), KeyId |-> key.KeyId],
                       err |-> ""]

\* func GenerateRSASignature(signable []byte, key Key) (Signature, error);
\* salt is what rand.Reader yields
GenerateRSASignature(signable, key, salt) ==
    LET p == ParseRSAPrivateKeyFromPEM(key.KeyVal.Private)
    IN  IF p.err # "" THEN [sig |-> ZeroSignature, err |-> p.err]
        ELSE LET hashed == Sum256(signable)
                 s == SignPSS(salt, p.key, hashed, Sha256Size)
             IN  IF s.err # "" THEN [sig |-> ZeroSignature, err |-> s.err]
                 ELSE [sig |-> [Sig |-> EncodeToString(s.out), KeyId |-> key.KeyId],
                       err |-> ""]

\* a slip: the result of rsa.VerifyPSS is dropped
VerifyRSASignatureUnchecked(key, s, d) ==
    LET p == ParseRSAPublicKeyFromPEM(key.KeyVal.Public)
    IN  IF p.err # "" THEN p.err ELSE ""

\* func VerifyRSASignature(key Key, sig Signature, data []byte) error
VerifyRSASignature(key, s, d) ==
    LET p == ParseRSAPublicKeyFromPEM(key.KeyVal.Public)
    IN  IF p.err # "" THEN p.err
        ELSE LET hashed == Sum256(d)
                 \* sigHex, _ := hex.DecodeString(sig.Sig)
                 sigHex == DecodeString(s.Sig).out
             IN  VerifyPSS(p.key, hashed, sigHex, Sha256Size)

(***************************************************************************)
(* Ed25519 key objects in JSON.  The text <<2000, d>> is the serialisation *)
(* of document d of JSONDocs; any other text is not valid JSON.            *)
(***************************************************************************)
Seed1 == [i \in 1..SeedSize |-> (7 * i + 3) % 256]
PrivHex1 == EncodeToString(Seed1)
PubHex1 == EncodeToString(PublicFromSeed(Seed1))
\* a keyid a key file may carry: 64 hex digits, not the digest of the key
GivenKeyId == EncodeToString([i \in 1..Sha256Size |-> (11 * i) % 256])
Algs == <<"sha256", "sha512">>

\* the upper-case spelling of a hex string
ToUpper(s) == [i \in 1..Len(s) |-> IF s[i] >= 97 /\ s[i] <= 102 THEN s[i] - 32 ELSE s[i]]

JSONDocs == <<
    \* 1: public key file as in-toto-keygen writes it
    MkKey(<<>>, "ed25519", "ed25519", Algs, PubHex1, <<>>),
    \* 2: private key file carrying a keyid
    MkKey(GivenKeyId, "ed25519", "ed25519", Algs, PubHex1, PrivHex1),
    \* 3: private key file without keyid
    MkKey(<<>>, "ed25519", "ed25519", Algs, PubHex1, PrivHex1),
    \* 4: a key of another type
    MkKey(<<>>, "rsa", "rsassa-pss-sha256", Algs, PubHex1, <<>>),
    \* 5: private key file whose public value is two digits long
    MkKey(<<>>, "ed25519", "ed25519", Algs, <<97, 98>>, PrivHex1),
    \* 6: public key file whose public value is 66 digits long
    MkKey(<<>>, "ed25519", "ed25519", Algs, PubHex1 \o <<48, 48>>, <<>>),
    \* 7: private key file whose private value is 64 characters, none a hex digit
    MkKey(<<>>, "ed25519", "ed25519", Algs, PubHex1, Repeat(122, Ed25519HexLen)),
    \* 8: private key file whose private value is two digits long
    MkKey(<<>>, "ed25519", "ed25519", Algs, PubHex1, <<97, 98>>),
    \* 9: public key file carrying a keyid
    MkKey(GivenKeyId, "ed25519", "ed25519", Algs, PubHex1, <<>>),
    \* 10: scheme of another type
    MkKey(<<>>, "ed25519", "rsassa-pss-sha256", Algs, PubHex1, PrivHex1)
  >>

JSONText(d) == <<2000, d>>

\* json.Unmarshal([]uint8(JSONString), &keyObj): fields the document lacks
\* keep their zero value
Unmarshal(text) ==
    IF Len(text) = 2 /\ text[1] = 2000 /\ text[2] \in DOMAIN JSONDocs
    THEN [key |-> JSONDocs[text[2]], err |-> ""]
    ELSE [key |-> ZeroKey, err |-> "invalid character"]

\* validatePrivateKey: the private value must be present
validatePrivateKey(key) ==
    IF key.KeyVal.Private = <<>> THEN "private key cannot be empty" ELSE ""

\* validatePubKey: the public value must be present
validatePubKey(key) ==
    IF key.KeyVal.Public = <<>> THEN "public key cannot be empty" ELSE ""

\* a slip: the key id is derived anew whatever the document carried
ParseEd25519FromPrivateJSONAlwaysDeriving(JSONString) ==
    LET u == Unmarshal(JSONString)
        keyObj == u.key
    IN  IF u.err # ""
        THEN [key |-> keyObj, err |-> "this is not a valid JSON key object"]
        ELSE IF keyObj.KeyType # "ed25519" \/ keyObj.Scheme # "ed25519"
        THEN [key |-> keyObj, err |-> "this doesn't appear to be an ed25519 key"]
        ELSE LET g == GenerateKeyId(keyObj)
             IN  IF g.err # "" THEN g
                 ELSE IF validatePrivateKey(g.key) # ""
                 THEN [key |-> g.key, err |-> validatePrivateKey(g.key)]
                 ELSE IF Len(g.key.KeyVal.Private) # Ed25519HexLen
                 THEN [key |-> g.key, err |-> "the private field on this key is malformed"]
                 ELSE [key |-> g.key, err |-> ""]

\* func ParseEd25519FromPrivateJSON(JSONString string) (Key, error)
ParseEd25519FromPrivateJSON(JSONString) ==
    LET u == Unmarshal(JSONString)
        keyObj == u.key
    IN  IF u.err # ""
        THEN [key |-> keyObj, err |-> "this is not a valid JSON key object"]
        ELSE IF keyObj.KeyType # "ed25519" \/ keyObj.Scheme # "ed25519"
        THEN [key |-> keyObj, err |-> "this doesn't appear to be an ed25519 key"]
        ELSE LET g == IF keyObj.KeyId = <<>> THEN GenerateKeyId(keyObj)
                      ELSE [key |-> keyObj, err |-> ""]
             IN  IF g.err # "" THEN g
                 ELSE IF validatePrivateKey(g.key) # ""
                 THEN [key |-> g.key, err |-> validatePrivateKey(g.key)]
                 ELSE IF Len(g.key.KeyVal.Private) # Ed25519HexLen
                 THEN [key |-> g.key, err |-> "the private field on this key is malformed"]
                 ELSE [key |-> g.key, err |-> ""]

\* func ParseEd25519FromPublicJSON(JSONString string) (Key, error)
ParseEd25519FromPublicJSON(JSONString) ==
    LET u == Unmarshal(JSONString)
        keyObj == u.key
    IN  IF u.err # ""
        THEN [key |-> keyObj, err |-> "this is not a valid JSON key object"]
        ELSE IF keyObj.KeyType # "ed25519" \/ keyObj.Scheme # "ed25519"
        THEN [key |-> keyObj, err |-> "this doesn't appear to be an ed25519 key"]
        ELSE LET g == IF keyObj.KeyId = <<>> THEN GenerateKeyId(keyObj)
                      ELSE [key |-> keyObj, err |-> ""]
             IN  IF g.err # "" THEN g
                 ELSE IF validatePubKey(g.key) # ""
                 THEN [key |-> g.key, err |-> validatePubKey(g.key)]
                 ELSE IF Len(g.key.KeyVal.Public) # Ed25519HexLen
                 THEN [key |-> g.key, err |-> "the public field on this key is malformed"]
                 ELSE [key |-> g.key, err |-> ""]

\* a slip: the payload is hashed before it is signed, as on the RSA side
GenerateEd25519SignaturePrehashed(signable, key) ==
    LET seed == DecodeString(key.KeyVal.Private)
    IN  IF seed.err # "" THEN [sig |-> ZeroSignature, err |-> seed.err, panic |-> FALSE]
        ELSE LET privkey == NewKeyFromSeed(seed.out)
             IN  IF privkey.panic
                 THEN [sig |-> ZeroSignature, err |-> "", panic |-> TRUE]
                 ELSE [sig |-> [Sig |-> EncodeToString(Sign(privkey.out, Sum256(signable))),
                                KeyId |-> key.KeyId],
                       err |-> "", panic |-> FALSE]

\* func GenerateEd25519Signature(signable []byte, key Key) (Signature, error)
GenerateEd25519Signature(signable, key) ==
    LET seed == DecodeString(key.KeyVal.Private)
    IN  IF seed.err # "" THEN [sig |-> ZeroSignature, err |-> seed.err, panic |-> FALSE]
        ELSE LET privkey == NewKeyFromSeed(seed.out)
             IN  IF privkey.panic
                 THEN [sig |-> ZeroSignature, err |-> "", panic |-> TRUE]
                 ELSE [sig |-> [Sig |-> EncodeToString(Sign(privkey.out, signable)),
                                KeyId |-> key.KeyId],
                       err |-> "", panic |-> FALSE]

\* func VerifyEd25519Signature(key Key, sig Signature, data []byte) error
VerifyEd25519Signature(key, s, d) ==
    LET pubHex == DecodeString(key.KeyVal.Public)
    IN  IF pubHex.err # "" THEN [err |-> pubHex.err, panic |-> FALSE]
        ELSE LET sigHex == DecodeString(s.Sig)
             IN  IF sigHex.err # "" THEN [err |-> sigHex.err, panic |-> FALSE]
                 ELSE LET v == Verify(pubHex.out, d, sigHex.out)
                      IN  IF v.panic THEN [err |-> "", panic |-> TRUE]
                          ELSE IF ~v.ok
                          THEN [err |-> "invalid ed25519 signature", panic |-> FALSE]
                          ELSE [err |-> "", panic |-> FALSE]

\* the five assignments that copy the parsed key object onto the receiver
CopyKey(key, keyObj) ==
    [key EXCEPT !.KeyId = keyObj.KeyId,
                !.KeyType = keyObj.KeyType,
                !.KeyIdHashAlgorithms = keyObj.KeyIdHashAlgorithms,
                !.KeyVal = keyObj.KeyVal,
                !.Scheme = keyObj.Scheme]

\* func (k *Key) LoadEd25519PublicKey(path string) (err error)
LoadEd25519PublicKey(key, f) ==
    IF ~f.exists THEN [key |-> key, err |-> "open"]
    ELSE DeferredClose(f,
        IF f.readErr THEN [key |-> key, err |-> "read"]
        ELSE LET p == ParseEd25519FromPublicJSON(f.bytes)
             IN  IF p.err # "" THEN [key |-> key, err |-> p.err]
                 ELSE [key |-> CopyKey(key, p.key), err |-> ""])

\* func (k *Key) LoadEd25519PrivateKey(path string) (err error)
LoadEd25519PrivateKey(key, f) ==
    IF ~f.exists THEN [key |-> key, err |-> "open"]
    ELSE DeferredClose(f,
        IF f.readErr THEN [key |-> key, err |-> "read"]
        ELSE LET p == ParseEd25519FromPrivateJSON(f.bytes)
             IN  IF p.err # "" THEN [key |-> key, err |-> p.err]
                 ELSE [key |-> CopyKey(key, p.key), err |-> ""])

(***************************************************************************)
(* The inputs of the model: payloads, key files and key objects.           *)
(***************************************************************************)
Msgs == {Repeat(97, n) : n \in 0..MaxMsgLen}

Salts == 1..NumSalts

PemTexts == {
    <<PemBlock(2, 1), 10>>,              \* 1024-bit RSA private key
    <<PemBlock(2, 2), 10>>,              \* 512-bit RSA private key
    <<PemBlock(0, 1), 10>>,              \* 1024-bit RSA public key
    <<35, 10, PemBlock(0, 1), 10, 32>>,  \* the same after a comment line
    <<PemBlock(1, 3), 10>>,              \* ECDSA public key
    <<PemBlock(3, 0), 10>>,              \* PEM block of malformed DER
    <<35, 10>> }                         \* no PEM block, no JSON

JSONTexts == {JSONText(d) : d \in DOMAIN JSONDocs}

NoFile == MkFile(FALSE, FALSE, FALSE, <<>>)
Unreadable == MkFile(TRUE, TRUE, FALSE, <<>>)

\* the files a path handed to an RSA loader may name, among them one holding
\* the public value of key; closing two of them fails
RSAFiles(key) ==
    {NoFile, Unreadable}
    \cup {MkFile(TRUE, FALSE, FALSE, t) : t \in PemTexts \cup {key.KeyVal.Public}}
    \cup {MkFile(TRUE, FALSE, TRUE, t) : t \in {<<PemBlock(2, 2), 10>>, <<PemBlock(0, 1), 10>>}}

\* the files a path handed to an Ed25519 loader may name
Ed25519Files ==
    {NoFile, Unreadable}
    \cup {MkFile(TRUE, FALSE, FALSE, t) : t \in JSONTexts \cup {<<35, 10>>}}
    \cup {MkFile(TRUE, FALSE, TRUE, t) : t \in {JSONText(1), JSONText(7)}}

\* an Ed25519 key assembled in memory, hex digits in upper case
AssembledKey ==
    MkKey(<<97, 98>>, "ed25519", "ed25519", Algs, ToUpper(PubHex1), ToUpper(PrivHex1))

InitKeys == {ZeroKey, AssembledKey}

\* a Key holding only the public half of key
PublicHalf(key) == [key EXCEPT !.KeyVal.Private = <<>>]

NoTamper == [kind |-> "none", pos |-> 0, bit |-> 0]

Call(op, err, panic, key, file, text) ==
    [op |-> op, err |-> err, panic |-> panic, key |-> key, file |-> file,
     text |-> text]

(***************************************************************************)
(* The state machine: a caller that holds a Key k, fills it through the    *)
(* library, signs a payload with it, and has the (possibly altered)        *)
(* signature verified.                                                     *)
(*   prev    the Key before the last call                                  *)
(*   call    the last call: its file or text argument, the error and the   *)
(*           Key it returned (for a method, the receiver after the call)   *)
(*   signed  the signature and payload as GenerateXSignature returned them *)
(***************************************************************************)
Init ==
    /\ k \in InitKeys
    /\ prev = k
    /\ call = Call("none", "", FALSE, ZeroKey, NoFile, <<>>)
    /\ sig = ZeroSignature
    /\ data = <<>>
    /\ signed = [sig |-> ZeroSignature, data |-> <<>>]
    /\ tamper = NoTamper
    /\ pc = "keys"

\* err := k.X(path): r is the receiver after the call and the error
Filled(op, r, f) ==
    /\ prev' = k
    /\ k' = r.key
    /\ call' = Call(op, r.err, FALSE, r.key, f, <<>>)
    /\ UNCHANGED <<sig, data, signed, tamper, pc>>

CallGenerateKeyId ==
    /\ pc = "keys"
    /\ \E r \in {GenerateKeyId(k)} : Filled("GenerateKeyId", r, NoFile)

CallLoadRSAPublicKey ==
    /\ pc = "keys"
    /\ \E f \in RSAFiles(k) :
         \E r \in {LoadRSAPublicKey(k, f)} : Filled("LoadRSAPublicKey", r, f)

CallLoadRSAPrivateKey ==
    /\ pc = "keys"
    /\ \E f \in RSAFiles(k) :
         \E r \in {LoadRSAPrivateKey(k, f)} : Filled("LoadRSAPrivateKey", r, f)

CallLoadEd25519PublicKey ==
    /\ pc = "keys"
    /\ \E f \in Ed25519Files :
         \E r \in {LoadEd25519PublicKey(k, f)} : Filled("LoadEd25519PublicKey", r, f)

CallLoadEd25519PrivateKey ==
    /\ pc = "keys"
    /\ \E f \in Ed25519Files :
         \E r \in {LoadEd25519PrivateKey(k, f)} : Filled("LoadEd25519PrivateKey", r, f)

\* key, err := ParseEd25519FromXJSON(text)
Parsed(op, r, text) ==
    /\ prev' = k
    /\ call' = Call(op, r.err, FALSE, r.key, NoFile, text)
    /\ UNCHANGED <<k, sig, data, signed, tamper, pc>>

CallParseEd25519FromPrivateJSON ==
    /\ pc = "keys"
    /\ \E t \in JSONTexts \cup {<<35, 10>>} :
         \E r \in {ParseEd25519FromPrivateJSON(t)} :
            Parsed("ParseEd25519FromPrivateJSON", r, t)

CallParseEd25519FromPublicJSON ==
    /\ pc = "keys"
    /\ \E t \in JSONTexts \cup {<<35, 10>>} :
         \E r \in {ParseEd25519FromPublicJSON(t)} :
            Parsed("ParseEd25519FromPublicJSON", r, t)

\* signature, err := GenerateXSignature(m, k)
Signed(op, r, panic, m) ==
    /\ sig' = r.sig
    /\ data' = m
    /\ signed' = [sig |-> r.sig, data |-> m]
    /\ call' = Call(op, r.err, panic, k, NoFile, <<>>)
    /\ prev' = k
    /\ pc' = IF r.err = "" /\ ~panic THEN "signed" ELSE "done"
    /\ UNCHANGED <<k, tamper>>

CallGenerateRSASignature ==
    /\ pc = "keys"
    /\ \E m \in Msgs, salt \in Salts :
         \E r \in {GenerateRSASignature(m, k, salt)} :
            Signed("GenerateRSASignature", r, FALSE, m)

CallGenerateEd25519Signature ==
    /\ pc = "keys"
    /\ \E m \in Msgs :
         \E r \in {GenerateEd25519Signature(m, k)} :
            Signed("GenerateEd25519Signature", r, r.panic, m)

\* somebody inverts one bit of the hex string of the signature
FlipSigBit ==
    /\ pc = "signed"
    /\ \E i \in 1..Len(sig.Sig), b \in 0..7 :
         /\ sig' = [sig EXCEPT !.Sig[i] = FlipBit(@, b)]
         /\ tamper' = [kind |-> "sig", pos |-> i, bit |-> b]
    /\ pc' = "tampered"
    /\ UNCHANGED <<k, prev, call, data, signed>>

\* somebody inverts one bit of the payload
FlipDataBit ==
    /\ pc = "signed"
    /\ \E i \in 1..Len(data), b \in 0..7 :
         /\ data' = [data EXCEPT ![i] = FlipBit(@, b)]
         /\ tamper' = [kind |-> "data", pos |-> i, bit |-> b]
    /\ pc' = "tampered"
    /\ UNCHANGED <<k, prev, call, sig, signed>>

\* somebody appends to the hex string: a digit, two digits, two other letters
AppendToSig ==
    /\ pc = "signed"
    /\ \E suffix \in {<<48>>, <<48, 48>>, <<103, 103>>} :
         /\ sig' = [sig EXCEPT !.Sig = @ \o suffix]
         /\ tamper' = [kind |-> "append", pos |-> Len(sig.Sig) + 1, bit |-> 0]
    /\ pc' = "tampered"
    /\ UNCHANGED <<k, prev, call, data, signed>>

\* err := VerifyXSignature(key, sig, data) for the scheme that signed, key
\* being k or its public half
Verified(op, err, panic, key) ==
    /\ call' = Call(op, err, panic, key, NoFile, <<>>)
    /\ pc' = "done"
    /\ UNCHANGED <<k, prev, sig, data, signed, tamper>>

CallVerifyRSASignature ==
    /\ pc \in {"signed", "tampered"}
    /\ call.op = "GenerateRSASignature"
    /\ \E key \in {k, PublicHalf(k)} :
         \E err \in {VerifyRSASignature(key, sig, data)} :
            Verified("VerifyRSASignature", err, FALSE, key)

CallVerifyEd25519Signature ==
    /\ pc \in {"signed", "tampered"}
    /\ call.op = "GenerateEd25519Signature"
    /\ \E key \in {k, PublicHalf(k)} :
         \E r \in {VerifyEd25519Signature(key, sig, data)} :
            Verified("VerifyEd25519Signature", r.err, r.panic, key)

Next ==
    \/ CallGenerateKeyId
    \/ CallLoadRSAPublicKey
    \/ CallLoadRSAPrivateKey
    \/ CallLoadEd25519PublicKey
    \/ CallLoadEd25519PrivateKey
    \/ CallParseEd25519FromPrivateJSON
    \/ CallParseEd25519FromPublicJSON
    \/ CallGenerateRSASignature
    \/ CallGenerateEd25519Signature
    \/ FlipSigBit
    \/ FlipDataBit
    \/ AppendToSig
    \/ CallVerifyRSASignature
    \/ CallVerifyEd25519Signature

Spec == Init /\ [][Next]_vars

(***************************************************************************)
(* Properties                                                              *)
(***************************************************************************)
LoadOps == {"LoadRSAPublicKey", "LoadRSAPrivateKey",
            "LoadEd25519PublicKey", "LoadEd25519PrivateKey"}
Ed25519LoadOps == {"LoadEd25519PublicKey", "LoadEd25519PrivateKey"}
ParseOps == {"ParseEd25519FromPrivateJSON", "ParseEd25519FromPublicJSON"}
VerifyOps == {"VerifyRSASignature", "VerifyEd25519Signature"}

\* the Keys a successful LoadRSAPrivateKey leaves behind (it assigns every field)
LoadedRSAPrivateKeys ==
    {r.key : r \in {x \in {LoadRSAPrivateKey(ZeroKey, MkFile(TRUE, FALSE, FALSE, t)) :
                              t \in PemTexts} : x.err = ""}}

\* the private value is the hex of a seed, the public value the hex of the
\* public key expanded from it
Ed25519PairOK(key) ==
    LET seed == DecodeString(key.KeyVal.Private)
        pub == DecodeString(key.KeyVal.Public)
    IN  /\ seed.err = "" /\ Len(seed.out) = SeedSize
        /\ pub.err = "" /\ pub.out = PublicFromSeed(seed.out)

\* the public half of the signing key k is the one its private half implies
PublicMatches ==
    \/ /\ call.op = "VerifyEd25519Signature"
       /\ Ed25519PairOK(k)
    \/ /\ call.op = "VerifyRSASignature"
       /\ ParseRSAPrivateKeyFromPEM(k.KeyVal.Private).err = ""
       /\ ParseRSAPublicKeyFromPEM(k.KeyVal.Public)
            = ParseRSAPrivateKeyFromPEM(k.KeyVal.Private)

\* the inverted bit is the case bit of a letter digit: the hex string now
\* spells the same bytes in upper case
CaseFlip ==
    /\ tamper.kind = "sig"
    /\ tamper.bit = 5
    /\ fromHexChar(signed.sig.Sig[tamper.pos]) >= 10

\* the keyid the parsed text carried
CarriedKeyId == Unmarshal(IF call.op \in ParseOps THEN call.text ELSE call.file.bytes).key.KeyId

\* C1: GenerateKeyId sets the same KeyId on every Key that agrees with the
\* receiver on KeyType, Scheme, KeyIdHashAlgorithms and KeyVal.Public,
\* whatever its KeyVal.Private and the KeyId it held before.
C1_KeyIdIgnoresPrivateAndOldId ==
    call.op = "GenerateKeyId" =>
        \A priv \in {<<>>, PrivHex1, <<PemBlock(2, 1)>>, <<120>>},
           id \in {<<>>, GivenKeyId, <<97, 98>>} :
            GenerateKeyId([prev EXCEPT !.KeyVal.Private = priv, !.KeyId = id]).key.KeyId
                = k.KeyId

C1_Witness ==
    /\ call.op = "GenerateKeyId"
    /\ prev.KeyVal.Private # <<>>
    /\ prev.KeyId # <<>>
    /\ k.KeyId # prev.KeyId

\* C2 as stated: after a single bit of the payload or of the signature's hex
\* string is inverted, verification with the matching key returns an error.
C2_AnyBitFlipDetected ==
    (call.op \in VerifyOps /\ tamper.kind \in {"sig", "data"} /\ PublicMatches)
        => call.err # ""

\* C2 amended: the same for every inverted bit except the case bit of a
\* letter digit of the hex string.
C2_BitFlipDetectedUnlessCaseFlip ==
    (call.op \in VerifyOps /\ tamper.kind \in {"sig", "data"} /\ PublicMatches
        /\ ~CaseFlip)
        => call.err # ""

C2_Witness ==
    /\ call.op = "VerifyRSASignature"
    /\ tamper.kind = "sig"
    /\ fromHexChar(sig.Sig[tamper.pos]) >= 0
    /\ ~CaseFlip
    /\ PublicMatches
    /\ call.err # ""

\* C3 as stated: VerifyRSASignature returns an error for every Sig that is
\* not a well-formed hex string.
C3_MalformedHexRejected ==
    (call.op = "VerifyRSASignature" /\ ~IsHexString(sig.Sig)) => call.err # ""

\* C4 as stated: a Key the Ed25519 parsers (and loaders) return without
\* error has the KeyId GenerateKeyId computes for it.
C4_ParsedKeyIdIsDerived ==
    (call.op \in ParseOps \cup Ed25519LoadOps /\ call.err = "")
        => call.key.KeyId = GenerateKeyId(call.key).key.KeyId

\* C4 amended: such a Key has the keyid the input carried when that is not
\* empty, and otherwise the KeyId GenerateKeyId computes for it.
C4_ParsedKeyIdIsCarriedOrDerived ==
    (call.op \in ParseOps \cup Ed25519LoadOps /\ call.err = "")
        => call.key.KeyId = IF CarriedKeyId # <<>> THEN CarriedKeyId
                            ELSE GenerateKeyId(call.key).key.KeyId

C4_Witness ==
    /\ call.op = "ParseEd25519FromPrivateJSON"
    /\ call.err = ""
    /\ CarriedKeyId = <<>>
    /\ Len(call.key.KeyId) = 2 * Sha256Size

\* C5 as stated: a Key the Ed25519 parsers return without error has public
\* and private values that are each empty or Ed25519HexLen characters long.
C5_ParsedKeyValShape ==
    (call.op \in ParseOps /\ call.err = "")
        => /\ Len(call.key.KeyVal.Public) \in {0, Ed25519HexLen}
           /\ Len(call.key.KeyVal.Private) \in {0, Ed25519HexLen}

\* C6: loading the public value of a Key filled by LoadRSAPrivateKey with
\* LoadRSAPublicKey yields the same public value, KeyId, KeyType, Scheme and
\* KeyIdHashAlgorithms.
C6_RSALoadSymmetry ==
    (/\ call.op = "LoadRSAPublicKey"
     /\ prev \in LoadedRSAPrivateKeys
     /\ call.file = MkFile(TRUE, FALSE, FALSE, prev.KeyVal.Public))
        => /\ call.err = ""
           /\ k.KeyVal.Public = prev.KeyVal.Public
           /\ k.KeyId = prev.KeyId
           /\ k.KeyType = prev.KeyType
           /\ k.Scheme = prev.Scheme
           /\ k.KeyIdHashAlgorithms = prev.KeyIdHashAlgorithms

C6_Witness ==
    /\ call.op = "LoadRSAPublicKey"
    /\ prev \in LoadedRSAPrivateKeys
    /\ call.file = MkFile(TRUE, FALSE, FALSE, prev.KeyVal.Public)
    /\ call.err = ""
    /\ k.KeyVal.Private = <<>>
    /\ k.KeyId = prev.KeyId

\* what the RSA round trip promises of the last call
RSARoundTripHolds ==
    /\ call.op = "GenerateRSASignature"
         => call.err = "" /\ sig.KeyId = k.KeyId
    /\ (call.op = "VerifyRSASignature" /\ tamper.kind = "none")
         => call.err = "" /\ sig.KeyId = k.KeyId

\* C7 as stated: with any Key filled by a successful LoadRSAPrivateKey,
\* signing any payload succeeds, the signature carries the Key's KeyId, and
\* verifying it with the Key or its public half succeeds.
C7_RSARoundTrip ==
    k \in LoadedRSAPrivateKeys => RSARoundTripHolds

\* C7 amended: the same for every such Key whose modulus is long enough for
\* a PSS encoding with a SHA-256 digest and a salt of sha256.Size bytes.
C7_RSARoundTripIfPSSFits ==
    (/\ k \in LoadedRSAPrivateKeys
     /\ PSSFits(ParseRSAPrivateKeyFromPEM(k.KeyVal.Private).key, Sha256Size, Sha256Size))
        => RSARoundTripHolds

C7_Witness ==
    /\ call.op = "VerifyRSASignature"
    /\ tamper.kind = "none"
    /\ k \in LoadedRSAPrivateKeys
    /\ call.key = PublicHalf(k)
    /\ data # <<>>
    /\ call.err = ""

\* C8: with a Key whose private value is the hex of a seed and whose public
\* value is the hex of the public key expanded from it, signing any payload
\* succeeds, the signature carries the Key's KeyId, and verifying succeeds.
C8_Ed25519RoundTrip ==
    Ed25519PairOK(k) =>
        /\ call.op = "GenerateEd25519Signature"
             => call.err = "" /\ ~call.panic /\ sig.KeyId = k.KeyId
        /\ (call.op = "VerifyEd25519Signature" /\ tamper.kind = "none")
             => call.err = "" /\ ~call.panic /\ sig.KeyId = k.KeyId

C8_Witness ==
    /\ call.op = "VerifyEd25519Signature"
    /\ tamper.kind = "none"
    /\ Ed25519PairOK(k)
    /\ data # <<>>
    /\ call.err = ""
    /\ ~call.panic

\* C9 as stated: a loader that returns an error leaves every field of the
\* receiver as it was, and a parser that returns an error returns no
\* populated Key.
C9_NoPartialResults ==
    /\ (call.op \in LoadOps /\ call.err # "") => k = prev
    /\ (call.op \in ParseOps /\ call.err # "") => call.key = ZeroKey

\* C10 as stated: GenerateEd25519Signature and VerifyEd25519Signature end by
\* returning a result or an error, never by a panic.
C10_Ed25519NeverPanics ==
    call.op \in {"GenerateEd25519Signature", "VerifyEd25519Signature"} => ~call.panic

====
